---- MODULE Spec2Model ----
(***************************************************************************)
(* Model of ai-commit-msg/prepare-commit-msg.py: a prepare-commit-msg hook *)
(* that asks a completion endpoint for a commit message.                   *)
(*                                                                         *)
(* Texts are sequences of one-character strings.  The robot emoji U+1F916  *)
(* is the one-character string ROBOT.                                      *)
(***************************************************************************)
EXTENDS Integers, Sequences, FiniteSets, TLC

VARIABLES
    pc,               \* position of main()
    exitCode,         \* process exit status, meaningful when pc = "exit"
    exc,              \* the uncaught exception that ended the run, if any
    env_has_key,      \* "OPENAI_API_KEY" in os.environ
    staged,           \* staged change of every file of FileOrder: "-", "M" or "D"
    msgFile,          \* the commit-message file sys.argv[1]
    msgFile0,         \* its content when the hook started
    promptFile,       \* the file .prompt in the working directory
    promptFile0,      \* .prompt when the hook started
    stdout,           \* lines printed to standard output
    stderr,           \* diagnostics printed to standard error
    cliCalls,         \* subprocess.run calls made
    httpRequests,     \* conn.request calls made
    removals,         \* os.remove calls made on the commit-message file
    git_status_text,  \* main's local
    git_diff_text,    \* main's local
    prompt,           \* main's local
    response,         \* get_suggested_commit_message's local
    completion        \* get_suggested_commit_message's local

vars == <<pc, exitCode, exc, env_has_key, staged, msgFile, msgFile0, promptFile,
          promptFile0, stdout, stderr, cliCalls, httpRequests, removals,
          git_status_text, git_diff_text, prompt, response, completion>>

----------------------------------------------------------------------------
(* Bounds of the model *)

\* longest initial content of the commit-message file
MaxMsgLen == 2
\* longest generated continuation of a completion text
MaxTail == 1
\* most elements of a "choices" list
MaxChoices == 2

\* result.stdout[:10000]
DiffMaxChars == 10000

----------------------------------------------------------------------------
(* Strings *)

ROBOT == "U+1F916"

\* the characters str.strip() removes that occur in the model
Whitespace == {" ", "\n"}

\* all sequences over alphabet S of length at most n
SeqsUpTo(S, n) == UNION {[1..k -> S] : k \in 0..n}

RECURSIVE lstrip(_)
lstrip(s) ==
    IF s = <<>> THEN <<>>
    ELSE IF Head(s) \in Whitespace THEN lstrip(Tail(s))
    ELSE s

RECURSIVE rstrip(_)
rstrip(s) ==
    IF s = <<>> THEN <<>>
    ELSE IF s[Len(s)] \in Whitespace THEN rstrip(SubSeq(s, 1, Len(s) - 1))
    ELSE s

\* str.strip()
strip(s) == rstrip(lstrip(s))

\* str.startswith(p)
startswith(s, p) == Len(s) >= Len(p) /\ SubSeq(s, 1, Len(p)) = p

\* sub in s, for two strings
Contains(s, sub) ==
    \E i \in 0..(Len(s) - Len(sub)) : SubSeq(s, i + 1, i + Len(sub)) = sub

\* f.readline() on a freshly opened file: through the first newline
RECURSIVE readline(_)
readline(s) ==
    IF s = <<>> THEN <<>>
    ELSE IF Head(s) = "\n" THEN <<"\n">>
    ELSE <<Head(s)>> \o readline(Tail(s))

\* str.splitlines(), for texts whose only line break is "\n"
RECURSIVE splitlines(_)
splitlines(s) ==
    IF s = <<>> THEN <<>>
    ELSE LET line == readline(s)
             body == IF line[Len(line)] = "\n" THEN SubSeq(line, 1, Len(line) - 1) ELSE line
         IN <<body>> \o splitlines(SubSeq(s, Len(line) + 1, Len(s)))

\* s[:n]
Truncate(s, n) == IF Len(s) <= n THEN s ELSE SubSeq(s, 1, n)

----------------------------------------------------------------------------
(* The version-control CLI, as far as the hook observes it *)

\* the paths of the repository that may carry a staged change, in the order
\* git lists them
FileOrder == <<"app.py", "package-lock.json", "yarn.lock">>

Files == {FileOrder[i] : i \in 1..Len(FileOrder)}

\* a file's staged change: none, modified, deleted
StagedStatus == {"-", "M", "D"}

\* the staged changes the hook may meet: any change of a source file, and the
\* lock files regenerated or left alone
StagedChanges ==
    {st \in [1..Len(FileOrder) -> StagedStatus] :
        \A i \in 1..Len(FileOrder) : FileOrder[i] \in {"package-lock.json", "yarn.lock"} => st[i] # "D"}

\* --diff-filter=ACMRTUXB
DiffFilter == {"A", "C", "M", "R", "T", "U", "X", "B"}

\* get_diff_text's default argument
excluded == {"package-lock.json", "yarn.lock"}

\* the outcomes of one subprocess.run of git
CliResults == {[returncode |-> 0, stderr |-> <<>>],
               [returncode |-> 128, stderr |-> <<"fatal">>]}

RECURSIVE StatusFrom(_, _)
StatusFrom(st, i) ==
    IF i > Len(FileOrder) THEN <<>>
    ELSE (IF st[i] # "-" THEN <<st[i], " ", FileOrder[i], "\n">> ELSE <<>>)
         \o StatusFrom(st, i + 1)

\* stdout of: git status --short --untracked-files=no
StatusOutput(st) == StatusFrom(st, 1)

RECURSIVE NamesFrom(_, _)
NamesFrom(st, i) ==
    IF i > Len(FileOrder) THEN <<>>
    ELSE (IF st[i] \in DiffFilter THEN <<FileOrder[i]>> ELSE <<>>)
         \o NamesFrom(st, i + 1)

\* stdout.splitlines() of: git diff --cached --name-only --diff-filter=ACMRTUXB
NameOnlyOutput(st) == NamesFrom(st, 1)

RECURSIVE DiffFrom(_, _, _)
DiffFrom(st, paths, i) ==
    IF i > Len(FileOrder) THEN <<>>
    ELSE (IF st[i] # "-" /\ (paths = <<>> \/ \E k \in 1..Len(paths) : paths[k] = FileOrder[i])
          THEN <<"diff --git", FileOrder[i], st[i], "\n">>
          ELSE <<>>)
         \o DiffFrom(st, paths, i + 1)

\* stdout of: git diff --cached --no-color --no-ext-diff --unified=0 --no-prefix
\* <paths>; with no path every staged change is shown
DiffOutput(st, paths) == DiffFrom(st, paths, 1)

RECURSIVE FilterExcluded(_, _)
FilterExcluded(names, excl) ==
    IF names = <<>> THEN <<>>
    ELSE (IF Head(names) \notin excl THEN <<Head(names)>> ELSE <<>>)
         \o FilterExcluded(Tail(names), excl)

\* staged_changes = [filename for filename in ... if filename not in excluded]
staged_changes(names) == FilterExcluded(names, excluded)

\* the files whose changes occur in a diff text
FilesIn(text) == {text[i] : i \in 1..Len(text)} \cap Files

----------------------------------------------------------------------------
(* Prompt Builder *)

model == "text-davinci-003"

\* get_prompt: the fixed template with the model name, the status text and
\* the diff text substituted
get_prompt(m, status_text, diff_text) ==
    <<"<instructions>", m, "<examples>", m, "<tips>", m, "<Files changed>">>
    \o status_text
    \o <<"<Files diff>">>
    \o diff_text
    \o <<"<final rules>", m, "<respond>">>

----------------------------------------------------------------------------
(* Decoded responses of the completion endpoint *)

Update == <<"U", "p", "d", "a", "t", "e">>

\* the required start of a completion: the emoji and one space
Marker == <<ROBOT, " ">>

\* the banned start of a completion
BannedPrefix == Marker \o Update

\* the key looked up in the "error" value
MESSAGE == <<"m", "e", "s", "s", "a", "g", "e">>

Leads == {<<>>, <<" ">>, <<"\n", " ">>}

Heads == {<<>>,
          <<ROBOT>>,
          Marker,
          Marker \o <<"F", "i", "x">>,
          Marker \o <<"U", "p", "d", "a", "t">>,
          BannedPrefix,
          <<ROBOT>> \o Update,
          Update,
          <<"F", "i", "x">>}

Tails == SeqsUpTo({"e", " "}, MaxTail)

\* the "text" values a first choice may carry
Texts == {l \o h \o t : l \in Leads, h \in Heads, t \in Tails}

NoChoice == [hasText |-> FALSE, text |-> <<>>]

FirstChoices == {NoChoice} \cup {[hasText |-> TRUE, text |-> x] : x \in Texts}

OtherChoice == [hasText |-> TRUE, text |-> Marker \o <<"A", "d", "d">>]

\* the lists a "choices" key may hold: any first element, then OtherChoice
ChoiceLists ==
    {<<>>} \cup
    {<<c>> \o [i \in 1..k |-> OtherChoice] : c \in FirstChoices, k \in 0..(MaxChoices - 1)}

NoError == [t |-> "none", hasMessage |-> FALSE, message |-> <<>>, s |-> <<>>]

RateLimited == <<"r", "a", "t", "e", " ", "l", "i", "m", "i", "t", "e", "d">>

\* the values an "error" key may hold: an object with or without "message",
\* a plain string, null
ErrorValues ==
    {[t |-> "obj", hasMessage |-> TRUE, message |-> RateLimited, s |-> <<>>],
     [t |-> "obj", hasMessage |-> FALSE, message |-> <<>>, s |-> <<>>],
     [t |-> "str", hasMessage |-> FALSE, message |-> <<>>, s |-> RateLimited],
     [t |-> "str", hasMessage |-> FALSE, message |-> <<>>, s |-> <<"n", "o", " ">> \o MESSAGE],
     [t |-> "null", hasMessage |-> FALSE, message |-> <<>>, s |-> <<>>]}

NoResponse == [hasChoices |-> FALSE, choices |-> <<>>, hasError |-> FALSE, error |-> NoError]

\* the JSON objects json.loads may return
Responses ==
    {[hasChoices |-> TRUE, choices |-> c, hasError |-> FALSE, error |-> NoError] :
        c \in ChoiceLists}
    \cup {[hasChoices |-> FALSE, choices |-> <<>>, hasError |-> TRUE, error |-> e] :
        e \in ErrorValues}
    \cup {[hasChoices |-> TRUE, choices |-> <<>>, hasError |-> TRUE, error |-> e] :
        e \in ErrorValues}
    \cup {NoResponse}

----------------------------------------------------------------------------
(* Completion Client: OpenAIApiClient *)

NoExc == [type |-> "none", arg |-> <<>>]

Exc(type, arg) == [type |-> type, arg |-> arg]

\* one line on the error stream: the text of an f-string, the repr of a
\* value, or json.dumps of the body
Diag(fmt, text, value, body) == [fmt |-> fmt, text |-> text, value |-> value, body |-> body]

\* "message" in response["error"]: a key test on an object, a substring test
\* on a string, a TypeError on null
MessageTestRaises(error) == error.t = "null"

MessageIn(error) ==
    IF error.t = "obj" THEN error.hasMessage
    ELSE error.t = "str" /\ Contains(error.s, MESSAGE)

\* response["error"]["message"]: a TypeError when the error value is a string
MessageLookupRaises(error) == error.t = "str"

\* _check_response raises instead of returning
check_response_raises(r) ==
    /\ ~r.hasChoices
    /\ r.hasError
    /\ \/ MessageTestRaises(r.error)
       \/ MessageIn(r.error) /\ MessageLookupRaises(r.error)

\* the lines _check_response prints to the error stream
check_response_diag(r) ==
    IF r.hasChoices \/ check_response_raises(r) THEN <<>>
    ELSE IF r.hasError
         THEN IF MessageIn(r.error)
              THEN <<Diag("str", r.error.message, NoError, NoResponse)>>
              ELSE IF r.error.t = "str"
                   THEN <<Diag("str", r.error.s, NoError, NoResponse)>>
                   ELSE <<Diag("repr", <<>>, r.error, NoResponse)>>
         ELSE <<Diag("json", <<>>, NoError, r)>>

\* the value _check_response returns
check_response(r) == r.hasChoices

\* the exception _get_completion raises, if any
get_completion_exc(r) ==
    IF Len(r.choices) = 0 THEN Exc("IndexError", <<>>)
    ELSE IF ~r.choices[1].hasText THEN Exc("KeyError", <<>>)
    ELSE NoExc

\* _get_completion: response["choices"][0]["text"].strip()
get_completion(r) == strip(r.choices[1].text)

\* the acceptance rules without the "Update" rule
acceptance_exc_no_ban(c) ==
    IF ~startswith(c, Marker)
    THEN Exc("OpenAIBadCompletionException", <<"incorrect header symbol:", "\n">> \o c)
    ELSE NoExc

\* the acceptance rules at the end of get_suggested_commit_message
acceptance_exc(c) ==
    IF ~startswith(c, Marker)
    THEN Exc("OpenAIBadCompletionException", <<"incorrect header symbol:", "\n">> \o c)
    ELSE IF startswith(c, BannedPrefix)
    THEN Exc("OpenAIBadCompletionException", <<"bad commit message:", "\n">> \o c)
    ELSE NoExc

----------------------------------------------------------------------------
(* Hook Driver: main() *)

File(content) == [exists |-> TRUE, content |-> content]

NoFile == [exists |-> FALSE, content |-> <<>>]

\* what the commit-message file may hold when git calls the hook
InitialMessages == SeqsUpTo({"x", " ", "\n"}, MaxMsgLen)

\* what .prompt may be when git calls the hook: absent, or left by an earlier run
InitialPromptFiles == {NoFile, File(<<"<stale prompt>">>)}

Init ==
    /\ pc = "check_abort"
    /\ exitCode = -1
    /\ exc = NoExc
    /\ env_has_key \in BOOLEAN
    /\ staged \in StagedChanges
    /\ msgFile \in {File(c) : c \in InitialMessages}
    /\ msgFile0 = msgFile
    /\ promptFile \in InitialPromptFiles
    /\ promptFile0 = promptFile
    /\ stdout = <<>>
    /\ stderr = <<>>
    /\ cliCalls = 0
    /\ httpRequests = 0
    /\ removals = 0
    /\ git_status_text = <<>>
    /\ git_diff_text = <<>>
    /\ prompt = <<>>
    /\ response = NoResponse
    /\ completion = <<>>

\* exit(code)
Exit(code) == pc' = "exit" /\ exitCode' = code /\ exc' = exc

\* an exception nothing catches: the interpreter prints it and exits 1
Raise(e) == pc' = "exit" /\ exitCode' = 1 /\ exc' = e

Goto(label) == pc' = label /\ exitCode' = exitCode /\ exc' = exc

\* print("\033[0;31m", result.stderr, "\033[0m") when result.stderr is not empty
PrintStderr(out, res) == IF res.stderr # <<>> THEN Append(out, res.stderr) ELSE out

\* check_abort's first test: f.readline().strip()
message_exists(content) == strip(readline(content)) # <<>>

\* check_abort with the credential test moved before the message test
check_abort_key_first(content, has_key) ==
    IF ~has_key THEN "no_key"
    ELSE IF message_exists(content) THEN "skip"
    ELSE "continue"

\* check_abort without the credential test
check_abort_no_key_test(content, has_key) ==
    IF message_exists(content) THEN "skip" ELSE "continue"

\* check_abort's outcome
check_abort_outcome(content, has_key) ==
    IF message_exists(content) THEN "skip"
    ELSE IF ~has_key THEN "no_key"
    ELSE "continue"

CheckAbort ==
    /\ pc = "check_abort"
    /\ LET outcome == check_abort_outcome(msgFile.content, env_has_key) IN
       IF outcome = "skip"
       THEN /\ stdout' = Append(stdout, <<"Commit message already exists, exiting">>)
            /\ Exit(0)
       ELSE IF outcome = "no_key"
       THEN /\ stdout' = Append(stdout, <<"OpenAI suggestion failed: OPENAI_API_KEY not set">>)
            /\ Exit(1)
       ELSE /\ stdout' = stdout
            /\ Goto("get_status_text")
    /\ UNCHANGED <<env_has_key, staged, msgFile, msgFile0, promptFile, promptFile0, stderr,
                   cliCalls, httpRequests, removals, git_status_text, git_diff_text,
                   prompt, response, completion>>

GetStatusText ==
    /\ pc = "get_status_text"
    /\ \E res \in CliResults :
        /\ cliCalls' = cliCalls + 1
        /\ stdout' = PrintStderr(stdout, res)
        /\ IF res.returncode # 0
           THEN /\ Raise(Exc("Exception", <<"git diff failed">>))
                /\ git_status_text' = git_status_text
           ELSE /\ Goto("get_diff_text")
                /\ git_status_text' = StatusOutput(staged)
    /\ UNCHANGED <<env_has_key, staged, msgFile, msgFile0, promptFile, promptFile0, stderr,
                   httpRequests, removals, git_diff_text, prompt, response, completion>>

\* the text get_diff_text returns when both git calls succeed
get_diff_text(st) ==
    Truncate(DiffOutput(st, staged_changes(NameOnlyOutput(st))), DiffMaxChars)

GetDiffText ==
    /\ pc = "get_diff_text"
    /\ \E names \in CliResults :
        IF names.returncode # 0
        THEN /\ cliCalls' = cliCalls + 1
             /\ stdout' = PrintStderr(stdout, names)
             /\ Raise(Exc("Exception", <<"git diff failed">>))
             /\ git_diff_text' = git_diff_text
        ELSE \E diff \in CliResults :
             /\ cliCalls' = cliCalls + 2
             /\ stdout' = PrintStderr(PrintStderr(stdout, names), diff)
             /\ IF diff.returncode # 0
                THEN /\ Raise(Exc("Exception", <<"git diff failed">>))
                     /\ git_diff_text' = git_diff_text
                ELSE /\ Goto("get_prompt")
                     /\ git_diff_text' = get_diff_text(staged)
    /\ UNCHANGED <<env_has_key, staged, msgFile, msgFile0, promptFile, promptFile0, stderr,
                   httpRequests, removals, git_status_text, prompt, response, completion>>

BuildPrompt ==
    /\ pc = "get_prompt"
    /\ prompt' = get_prompt(model, git_status_text, git_diff_text)
    /\ Goto("persist_prompt")
    /\ UNCHANGED <<env_has_key, staged, msgFile, msgFile0, promptFile, promptFile0, stdout,
                   stderr, cliCalls, httpRequests, removals, git_status_text,
                   git_diff_text, response, completion>>

\* open(".prompt", "w") and write
overwrite(file, text) == File(text)

\* the append done with mode "w"
append_truncating(file, text) == File(text)

\* open(".prompt", "a") and write
append(file, text) == File(file.content \o text)

PersistDebugPrompt ==
    /\ pc = "persist_prompt"
    /\ promptFile' = overwrite(promptFile, prompt)
    /\ stdout' = Append(stdout, <<"Getting suggested commit message...">>)
    /\ Goto("send_request")
    /\ UNCHANGED <<env_has_key, staged, msgFile, msgFile0, promptFile0, stderr, cliCalls,
                   httpRequests, removals, git_status_text, git_diff_text, prompt,
                   response, completion>>

\* the failures of _send_request: no connection, or a body that is not JSON
TransportErrors == {"OSError", "JSONDecodeError"}

\* _send_request retried once after a transport failure
SendRequestRetry ==
    /\ pc = "send_request"
    /\ httpRequests' = httpRequests + 1
    /\ \/ \E e \in TransportErrors :
            /\ IF httpRequests = 0 THEN Goto("send_request") ELSE Raise(Exc(e, <<>>))
            /\ response' = response
       \/ \E r \in Responses :
            /\ Goto("check_response")
            /\ response' = r
    /\ UNCHANGED <<env_has_key, staged, msgFile, msgFile0, promptFile, promptFile0, stdout,
                   stderr, cliCalls, removals, git_status_text, git_diff_text, prompt,
                   completion>>

SendRequest ==
    /\ pc = "send_request"
    /\ httpRequests' = httpRequests + 1
    /\ \/ \E e \in TransportErrors :
            /\ Raise(Exc(e, <<>>))
            /\ response' = response
       \/ \E r \in Responses :
            /\ Goto("check_response")
            /\ response' = r
    /\ UNCHANGED <<env_has_key, staged, msgFile, msgFile0, promptFile, promptFile0, stdout,
                   stderr, cliCalls, removals, git_status_text, git_diff_text, prompt,
                   completion>>

\* the exception that ends get_suggested_commit_message at its response
\* check, if any
check_exc(r) ==
    IF check_response_raises(r) THEN Exc("TypeError", <<>>)
    ELSE IF ~check_response(r)
    THEN Exc("OpenAIApiException", <<"OpenAI API returned an invalid response">>)
    ELSE NoExc

CheckResponse ==
    /\ pc = "check_response"
    /\ stderr' = stderr \o check_response_diag(response)
    /\ IF check_exc(response) # NoExc
       THEN Raise(check_exc(response))
       ELSE Goto("get_completion")
    /\ UNCHANGED <<env_has_key, staged, msgFile, msgFile0, promptFile, promptFile0, stdout,
                   cliCalls, httpRequests, removals, git_status_text, git_diff_text,
                   prompt, response, completion>>

GetCompletion ==
    /\ pc = "get_completion"
    /\ IF get_completion_exc(response) # NoExc
       THEN /\ Raise(get_completion_exc(response))
            /\ completion' = completion
       ELSE /\ Goto("append_prompt")
            /\ completion' = get_completion(response)
    /\ UNCHANGED <<env_has_key, staged, msgFile, msgFile0, promptFile, promptFile0, stdout,
                   stderr, cliCalls, httpRequests, removals, git_status_text,
                   git_diff_text, prompt, response>>

AppendDebugPrompt ==
    /\ pc = "append_prompt"
    /\ promptFile' = append(promptFile, completion)
    /\ Goto("acceptance")
    /\ UNCHANGED <<env_has_key, staged, msgFile, msgFile0, promptFile0, stdout, stderr,
                   cliCalls, httpRequests, removals, git_status_text, git_diff_text,
                   prompt, response, completion>>

\* the acceptance rules reported but not enforced
AcceptanceLenient ==
    /\ pc = "acceptance"
    /\ Goto("remove_message")
    /\ UNCHANGED <<env_has_key, staged, msgFile, msgFile0, promptFile, promptFile0, stdout,
                   stderr, cliCalls, httpRequests, removals, git_status_text,
                   git_diff_text, prompt, response, completion>>

Acceptance ==
    /\ pc = "acceptance"
    /\ IF acceptance_exc(completion) # NoExc
       THEN Raise(acceptance_exc(completion))
       ELSE Goto("remove_message")
    /\ UNCHANGED <<env_has_key, staged, msgFile, msgFile0, promptFile, promptFile0, stdout,
                   stderr, cliCalls, httpRequests, removals, git_status_text,
                   git_diff_text, prompt, response, completion>>

\* os.remove(sys.argv[1])
RemoveMessageFile ==
    /\ pc = "remove_message"
    /\ msgFile' = NoFile
    /\ removals' = removals + 1
    /\ Goto("write_message")
    /\ UNCHANGED <<env_has_key, staged, msgFile0, promptFile, promptFile0, stdout, stderr,
                   cliCalls, httpRequests, git_status_text, git_diff_text, prompt,
                   response, completion>>

\* the lines main prints after the write
Feedback(message) ==
    <<<<>>, <<"Wrote suggested commit message to">>, <<>>>>
    \o [i \in 1..Len(splitlines(message)) |-> <<">">> \o splitlines(message)[i]]

\* the write with a line end added after the suggestion
written_message_newline(suggested_commit_message) == suggested_commit_message \o <<"\n">>

\* the text main writes to the recreated file
written_message(suggested_commit_message) == suggested_commit_message

WriteMessageFile ==
    /\ pc = "write_message"
    /\ msgFile' = File(written_message(completion))
    /\ stdout' = stdout \o Feedback(completion)
    /\ Exit(0)
    /\ UNCHANGED <<env_has_key, staged, msgFile0, promptFile, promptFile0, stderr,
                   cliCalls, httpRequests, removals, git_status_text, git_diff_text,
                   prompt, response, completion>>

Next ==
    \/ CheckAbort
    \/ GetStatusText
    \/ GetDiffText
    \/ BuildPrompt
    \/ PersistDebugPrompt
    \/ SendRequest
    \/ CheckResponse
    \/ GetCompletion
    \/ AppendDebugPrompt
    \/ Acceptance
    \/ RemoveMessageFile
    \/ WriteMessageFile

Spec == Init /\ [][Next]_vars

----------------------------------------------------------------------------
(* Vocabulary of the properties *)

Exited == pc = "exit"

\* check_abort let the run continue
PassedCheckAbort == ~message_exists(msgFile0.content) /\ env_has_key

\* a decoded response has arrived
Responded == httpRequests = 1 /\ ~(Exited /\ exc.type \in TransportErrors)
             /\ pc # "send_request"

\* the response check is over
Checked == Responded /\ pc # "check_response"

\* the response has the structure "choices": [{"text": ...}, ...]
WellFormed(r) == r.hasChoices /\ Len(r.choices) > 0 /\ r.choices[1].hasText

\* the first choice's text with surrounding whitespace removed, by position
Trimmed(text) ==
    LET inner == {i \in 1..Len(text) : text[i] \notin Whitespace} IN
    IF inner = {} THEN <<>>
    ELSE LET lo == CHOOSE i \in inner : \A j \in inner : i <= j
             hi == CHOOSE i \in inner : \A j \in inner : j <= i
         IN [k \in 1..(hi - lo + 1) |-> text[lo + k - 1]]

\* both acceptance rules, by position
Acceptable(c) ==
    /\ Len(c) >= 2 /\ c[1] = ROBOT /\ c[2] = " "
    /\ ~(Len(c) >= 8 /\ \A k \in 1..6 : c[2 + k] = Update[k])

\* the acceptance rules have been applied
Judged == Checked /\ WellFormed(response)
          /\ pc \in {"remove_message", "write_message", "exit"}

\* get_suggested_commit_message has returned a string
Returned == Judged /\ ~(Exited /\ exc.type # "none")

----------------------------------------------------------------------------
(* Properties *)

\* C1: when the first line of the commit-message file holds non-whitespace
\* content, the run never leaves check_abort except by exiting with status 0,
\* makes no CLI call and no request, and leaves the commit-message file and
\* .prompt as they were, whether or not the credential is present.
C1_SkipOnExistingMessage ==
    (\E i \in 1..Len(readline(msgFile0.content)) :
        readline(msgFile0.content)[i] \notin Whitespace)
    => /\ pc \in {"check_abort", "exit"}
       /\ pc = "check_abort" => ENABLED CheckAbort
       /\ Exited => exitCode = 0 /\ exc = NoExc
       /\ cliCalls = 0
       /\ httpRequests = 0
       /\ msgFile = msgFile0
       /\ promptFile = promptFile0

\* C1 witness: a run with a message present and no credential has exited
C1_Witness ==
    /\ Exited
    /\ ~env_has_key
    /\ msgFile0.content = <<" ", "x">>

\* C2: once the acceptance rules have been applied to a response whose first
\* choice carries a text, the call has returned exactly when the trimmed text
\* starts with the marker and not with the marker followed by "Update"; what
\* it returned is that trimmed text, which is not empty; otherwise it failed
\* with OpenAIBadCompletionException carrying the trimmed text.
C2_AcceptanceRules ==
    Judged =>
        LET t == Trimmed(response.choices[1].text) IN
        IF Acceptable(t)
        THEN /\ Returned
             /\ completion = t
             /\ completion # <<>>
        ELSE /\ Exited
             /\ exc.type = "OpenAIBadCompletionException"
             /\ Len(exc.arg) >= Len(t)
             /\ SubSeq(exc.arg, Len(exc.arg) - Len(t) + 1, Len(exc.arg)) = t
             /\ removals = 0

\* C2 witness: a padded text starting with the marker and "Update" was rejected
C2_Witness ==
    /\ Exited
    /\ exc.type = "OpenAIBadCompletionException"
    /\ WellFormed(response)
    /\ response.choices[1].text = <<" ">> \o BannedPrefix \o <<" ">>

\* the diagnostic C3 expects for a response without "choices"
C3_Expected(r) ==
    IF r.hasError
    THEN IF r.error.t = "obj" /\ r.error.hasMessage
         THEN Diag("str", r.error.message, NoError, NoResponse)
         ELSE IF r.error.t = "str"
              THEN Diag("str", r.error.s, NoError, NoResponse)
              ELSE Diag("repr", <<>>, r.error, NoResponse)
    ELSE Diag("json", <<>>, NoError, r)

\* C3: once a response without "choices" has been checked, exactly one
\* diagnostic is on the error stream (the error's message, else the error
\* value, else the body) and the call has failed with OpenAIApiException,
\* whatever the shape of the error value.
C3_NoChoicesDiagnosed ==
    (Checked /\ ~response.hasChoices /\ response.error.t \in {"none", "obj", "str"})
    => /\ stderr = <<C3_Expected(response)>>
       /\ Exited
       /\ exc.type = "OpenAIApiException"

\* the files whose changes C4 allows in the diff text
C4_Allowed == {FileOrder[i] : i \in {j \in 1..Len(FileOrder) : staged[j] \in DiffFilter}}
              \ {"package-lock.json", "yarn.lock"}

\* C4: once get_diff_text has returned, the diff text holds no change of
\* package-lock.json or yarn.lock, and only changes of staged files that
\* pass the ACMRTUXB filter and are not one of the two.
C4_LockFilesExcluded ==
    (pc \in {"get_prompt", "persist_prompt"})
    => /\ FilesIn(git_diff_text) \cap {"package-lock.json", "yarn.lock"} = {}
       /\ FilesIn(git_diff_text) \subseteq C4_Allowed

\* C5: a run that passed check_abort, whose CLI calls all exited 0 and whose
\* completion passes both rules goes on to delete and recreate the
\* commit-message file, and ends with exit status 0 and the file holding
\* exactly the trimmed first-choice text.
C5_SuccessfulWrite ==
    (Judged /\ Acceptable(Trimmed(response.choices[1].text)))
    => /\ PassedCheckAbort
       /\ cliCalls = 3
       /\ pc = "remove_message" => ENABLED RemoveMessageFile /\ msgFile = msgFile0
       /\ pc = "write_message" => ENABLED WriteMessageFile /\ msgFile = NoFile /\ removals = 1
       /\ Exited => /\ exitCode = 0
                    /\ exc = NoExc
                    /\ removals = 1
                    /\ msgFile = File(Trimmed(response.choices[1].text))

\* C5 witness: a padded completion replaced the old content of the file
C5_Witness ==
    /\ Exited
    /\ exitCode = 0
    /\ removals = 1
    /\ msgFile0.content = <<"\n", "x">>
    /\ response.choices[1].text = <<"\n", " ">> \o Marker \o <<"F", "i", "x">> \o <<" ">>
    /\ msgFile.content = Marker \o <<"F", "i", "x">>

\* the run ended in the intentional skip
C6_Skipped ==
    /\ \E i \in 1..Len(readline(msgFile0.content)) :
           readline(msgFile0.content)[i] \notin Whitespace
    /\ msgFile = msgFile0
    /\ httpRequests = 0

\* the run ended in a completed WriteResult
C6_Written ==
    /\ removals = 1
    /\ msgFile.exists
    /\ httpRequests = 1
    /\ WellFormed(response)
    /\ Acceptable(msgFile.content)

\* C6: a run exits with status 0 exactly when it ended in the skip or in a
\* completed write; every failure exits non-zero, and a missing credential
\* does so with a diagnostic and before any CLI call or request.
C6_ExitStatus ==
    Exited =>
        /\ exitCode \in {0, 1}
        /\ (exitCode = 0) <=> (C6_Skipped \/ C6_Written)
        /\ exc.type # "none" => exitCode # 0
        /\ (~C6_Skipped /\ ~env_has_key)
           => /\ exitCode # 0
              /\ stdout = <<<<"OpenAI suggestion failed: OPENAI_API_KEY not set">>>>
              /\ cliCalls = 0
              /\ httpRequests = 0

\* C6 witness: an invalid API response ended the run with a non-zero status
C6_Witness ==
    /\ Exited
    /\ exitCode # 0
    /\ exc.type = "OpenAIApiException"
    /\ response.hasError

\* C7: at most one request is ever issued: none in a run that ends in
\* check_abort or while collecting status and diff, one in every other
\* finished run; and it is issued only after check_abort passed, three CLI
\* calls succeeded and the prompt was built from their output.
C7_SingleRequest ==
    /\ httpRequests \in {0, 1}
    /\ httpRequests = 1
       => /\ PassedCheckAbort
          /\ cliCalls = 3
          /\ prompt # <<>>
          /\ pc \notin {"check_abort", "get_status_text", "get_diff_text", "get_prompt",
                        "persist_prompt", "send_request"}
    /\ Exited => (httpRequests = 0 <=> (~PassedCheckAbort \/ exc.type = "Exception"))

\* C7 witness: a transport failure ended the run after its one request
C7_Witness ==
    /\ Exited
    /\ exc.type \in TransportErrors
    /\ httpRequests = 1

\* C8: a response that has "choices" but an empty list, or a first choice
\* without "text", gets a diagnostic on the error stream and fails with
\* OpenAIApiException.
C8_MalformedIsApiError ==
    (Checked /\ response.hasChoices /\ ~WellFormed(response) /\ Exited)
    => /\ exc.type = "OpenAIApiException"
       /\ Len(stderr) >= 1

\* the prompt of the run, from what git reports
C9_Built ==
    <<"<instructions>", model, "<examples>", model, "<tips>", model, "<Files changed>">>
    \o git_status_text \o <<"<Files diff>">> \o git_diff_text
    \o <<"<final rules>", model, "<respond>">>

\* C9: .prompt holds exactly the built prompt from before the request until
\* extraction; from the append on, and so already while the acceptance rules
\* are applied, it holds the prompt followed by the trimmed completion; at
\* termination it holds the prompt alone when the run failed before
\* extraction and the prompt followed by the completion when extraction was
\* reached, accepted or not.
C9_DebugPrompt ==
    /\ pc \in {"send_request", "check_response", "get_completion", "append_prompt"}
       => promptFile = File(C9_Built) /\ httpRequests = (IF pc = "send_request" THEN 0 ELSE 1)
    /\ pc \in {"acceptance", "remove_message", "write_message"}
       => promptFile = File(C9_Built \o Trimmed(response.choices[1].text))
    /\ (Exited /\ httpRequests = 1)
       => IF WellFormed(response) /\ exc.type \notin TransportErrors
          THEN promptFile = File(C9_Built \o Trimmed(response.choices[1].text))
          ELSE promptFile = File(C9_Built)

\* C9 witness: a rejected completion is in .prompt after the prompt, the
\* stale content gone
C9_Witness ==
    /\ Exited
    /\ exc.type = "OpenAIBadCompletionException"
    /\ promptFile0.exists
    /\ completion = <<"F", "i", "x">>
    /\ promptFile.content = prompt \o <<"F", "i", "x">>

\* C10: the commit-message file keeps its initial content in every state
\* before the delete step, and for good in every run that does not obtain a
\* completion passing both rules; the delete happens only after such a
\* completion was returned, and nothing but that completion is ever written.
C10_MessageUntouched ==
    /\ pc \notin {"write_message", "exit"} => msgFile = msgFile0 /\ removals = 0
    /\ removals \in {0, 1}
    /\ removals = 0 => msgFile = msgFile0
    /\ removals = 1 => /\ WellFormed(response)
                       /\ Acceptable(Trimmed(response.choices[1].text))
                       /\ msgFile \in {NoFile, File(Trimmed(response.choices[1].text))}
    /\ (Exited /\ ~(WellFormed(response) /\ Acceptable(Trimmed(response.choices[1].text))))
       => msgFile = msgFile0

\* C10 witness: a rejected completion left a blank-first-line file as it was
C10_Witness ==
    /\ Exited
    /\ exc.type = "OpenAIBadCompletionException"
    /\ msgFile0.content = <<"\n", "x">>
    /\ msgFile = msgFile0

====
